---------------------------- MODULE Spec2Model ----------------------------
(***************************************************************************)
(* A model of xh's Printer (src/printer.rs): the rendering of request and  *)
(* response headers and bodies to the output Buffer.                       *)
(*                                                                         *)
(* Text is modelled as a sequence of character codes (a byte string before *)
(* decoding, code points after), so that sorting, formatting and decoding  *)
(* are computed as the code computes them.  The sink is observed through   *)
(* the sequence of calls made on the Buffer and on Highlighter sessions,   *)
(* each with the outcome (ok or I/O error) it had.                         *)
(***************************************************************************)
EXTENDS Naturals, Sequences, FiniteSets

VARIABLES printer, call

vars == <<printer, call>>

---------------------------------------------------------------------------
(* Bounds of the model.                                                    *)

\* longest request body / response body (in bytes, over BodyBytes)
MaxBody == 2
\* most entries of a HeaderMap given to the printer
MaxHeaders == 2
\* the I/O operations of one call that may be chosen to fail: 1..MaxFail
MaxFail == 3

---------------------------------------------------------------------------
(* Characters.                                                             *)

NUL == 0
LF == 10
SPACE == 32
QUOTE == 34
COLON == 58
BACKSLASH == 92

\* Option<T>
None == [some |-> FALSE]
Some(v) == [some |-> TRUE, v |-> v]

MULTIPART_SUPPRESSOR ==
    <<43, 45, 45, 45, 45, 45, 45, 45, 45, 45, 45, 45, 45, 45, 45, 45, 45, 45, 45, 45, 45, 45, 45, 45, 45, 45, 45, 45, 45, 45, 45, 45, 45, 45, 45, 45, 45, 45, 45, 45, 45, 45, 45, 45, 45, 43, 10>> \o
    <<124, 32, 78, 79, 84, 69, 58, 32, 109, 117, 108, 116, 105, 112, 97, 114, 116, 32, 100, 97, 116, 97, 32, 110, 111, 116, 32, 115, 104, 111, 119, 110, 32, 105, 110, 32, 116, 101, 114, 109, 105, 110, 97, 108, 32, 124, 10>> \o
    <<43, 45, 45, 45, 45, 45, 45, 45, 45, 45, 45, 45, 45, 45, 45, 45, 45, 45, 45, 45, 45, 45, 45, 45, 45, 45, 45, 45, 45, 45, 45, 45, 45, 45, 45, 45, 45, 45, 45, 45, 45, 45, 45, 45, 45, 43, 10>> \o
    <<10>>

BINARY_SUPPRESSOR ==
    <<43, 45, 45, 45, 45, 45, 45, 45, 45, 45, 45, 45, 45, 45, 45, 45, 45, 45, 45, 45, 45, 45, 45, 45, 45, 45, 45, 45, 45, 45, 45, 45, 45, 45, 45, 45, 45, 45, 45, 45, 45, 45, 43, 10>> \o
    <<124, 32, 78, 79, 84, 69, 58, 32, 98, 105, 110, 97, 114, 121, 32, 100, 97, 116, 97, 32, 110, 111, 116, 32, 115, 104, 111, 119, 110, 32, 105, 110, 32, 116, 101, 114, 109, 105, 110, 97, 108, 32, 124, 10>> \o
    <<43, 45, 45, 45, 45, 45, 45, 45, 45, 45, 45, 45, 45, 45, 45, 45, 45, 45, 45, 45, 45, 45, 45, 45, 45, 45, 45, 45, 45, 45, 45, 45, 45, 45, 45, 45, 45, 45, 45, 45, 45, 45, 43, 10>> \o
    <<10>>

\* All sequences over S of length at most n.
SeqsUpTo(S, n) == UNION {[1..k -> S] : k \in 0..n}

RECURSIVE Concat(_)
\* The concatenation of a sequence of texts.
Concat(texts) ==
    IF texts = <<>> THEN <<>> ELSE Head(texts) \o Concat(Tail(texts))

Contains(text, c) == \E i \in 1..Len(text) : text[i] = c

---------------------------------------------------------------------------
(* Printer::new and the configuration it is given.                         *)

\* Pretty (crate::cli): the four values of --pretty.
PrettyValues == {"all", "colors", "format", "none"}

\* Pretty::format(): whether bodies are reformatted and headers sorted.
Pretty_format(pretty) == pretty \in {"all", "format"}

\* Pretty::color(): whether output is highlighted.
Pretty_color(pretty) == pretty \in {"all", "colors"}

\* Buffer::new(download, output, is_stdout_tty): the kind of sink chosen.
Buffer_new(download, output, is_stdout_tty) ==
    IF download THEN "Stderr"
    ELSE IF output THEN "File"
    ELSE IF is_stdout_tty THEN "Stdout"
    ELSE "Redirect"

\* Buffer::is_terminal().
is_terminal(buffer) == buffer \in {"Stdout", "Stderr"}

\* Pretty::from(&Buffer): the default when --pretty is not given.
Pretty_from(buffer) == IF is_terminal(buffer) THEN "all" ELSE "none"

\* Printer::new with sort_headers taken from pretty.color().
Printer_new_sort_by_color(pretty, stream, buffer) ==
    LET p == IF pretty = "None" THEN Pretty_from(buffer) ELSE pretty
    IN  [indent_json  |-> Pretty_format(p),
         sort_headers |-> Pretty_color(p),
         color        |-> Pretty_color(p),
         stream       |-> stream,
         buffer       |-> buffer]

\* Printer::new(pretty, theme, stream, buffer); pretty = "None" is Option::None.
\* (The theme only selects the colours a Highlighter uses and is left out.)
Printer_new(pretty, stream, buffer) ==
    LET p == IF pretty = "None" THEN Pretty_from(buffer) ELSE pretty
    IN  [indent_json  |-> Pretty_format(p),
         sort_headers |-> Pretty_format(p),
         color        |-> Pretty_color(p),
         stream       |-> stream,
         buffer       |-> buffer]

---------------------------------------------------------------------------
(* The calls made on the sink, and I/O failure.                            *)
(*                                                                         *)
(* An execution of one operation is a record                               *)
(*   ev   : the reads of the body and the calls on the Buffer and on       *)
(*          Highlighter sessions made so far, in order, each with its      *)
(*          outcome;                                                       *)
(*   ok   : FALSE once an io::Error has been returned;                     *)
(*   n    : the I/O operations (reads and writes) performed so far;        *)
(*   fail : the I/O operation that fails (0: none does);                   *)
(*   path : the body renderers and the JSON formatter, as they are entered. *)

Start(fail) == [ev |-> <<>>, ok |-> TRUE, n |-> 0, fail |-> fail, path |-> <<>>]

\* The function `name` is entered.
Enter(s, name) == [s EXCEPT !.path = Append(@, name)]

\* kind "read":      a read of the body (by: who reads)
\* kind "print":     Buffer::print / a write to the Buffer   (by: who writes)
\* kind "open":      Highlighter::new(syntax, theme, buffer)
\* kind "highlight": Highlighter::highlight / a write to Highlighter::linewise()
\* kind "finish":    Highlighter::finish
Event(kind, by, syntax, text) ==
    [kind |-> kind, by |-> by, syntax |-> syntax, text |-> text, ok |-> TRUE]

\* A fallible call on the sink: it is recorded with its outcome.
Io(s, e) ==
    LET good == (s.n + 1 # s.fail)
    IN  [s EXCEPT !.ev = Append(@, [e EXCEPT !.ok = good]),
                  !.ok = good,
                  !.n = @ + 1]

\* A fallible read of the source (a body stream), made by `by`.
ReadIo(s, by) == Io(s, Event("read", by, "", <<>>))

\* Buffer::print(text), called by the printer itself.
Buffer_print(s, text) == Io(s, Event("print", "printer", "", text))

\* The text that reached the sink: what the successful writes wrote, in order.
\* (A Highlighter adds colour-control sequences only; they are left out.)
Written(ev) ==
    Concat([i \in 1..Len(ev) |->
              IF ev[i].ok /\ ev[i].kind \in {"print", "highlight"}
              THEN ev[i].text ELSE <<>>])

---------------------------------------------------------------------------
(* Headers.                                                                *)

\* Header names (http::header), lower case as HeaderName stores them.
HOST == <<104, 111, 115, 116>>
CONTENT_LENGTH == <<99, 111, 110, 116, 101, 110, 116, 45, 108, 101, 110, 103, 116, 104>>
ACCEPT == <<97, 99, 99, 101, 112, 116>>

\* The entries the header maps are made of: each name with the value "1",
\* and a second entry of one name whose value is not visible ASCII (the byte
\* 0xFF).
HeaderEntries ==
    { [name |-> HOST, value |-> <<49>>],
      [name |-> CONTENT_LENGTH, value |-> <<49>>],
      [name |-> ACCEPT, value |-> <<49>>],
      [name |-> ACCEPT, value |-> <<255>>] }

\* A HeaderMap is modelled by its iteration order: the entries of one name
\* are adjacent (HeaderMap::iter yields all the values of a name together).
Grouped(h) ==
    \A i, j, k \in 1..Len(h) :
        (i < j /\ j < k /\ h[i].name = h[k].name) => h[j].name = h[i].name

HeaderMaps == {h \in SeqsUpTo(HeaderEntries, MaxHeaders) : Grouped(h)}

contains_key(headers, name) ==
    \E i \in 1..Len(headers) : headers[i].name = name

\* headers.entry(name).or_insert_with(|| value)
entry_or_insert_with(headers, name, value) ==
    IF contains_key(headers, name) THEN headers
    ELSE Append(headers, [name |-> name, value |-> value])

RECURSIVE cmp(_, _)
\* a.cmp(&b) on strings: the ordinal (lexicographic by code) order.
cmp(a, b) ==
    IF a = <<>> /\ b = <<>> THEN "Equal"
    ELSE IF a = <<>> THEN "Less"
    ELSE IF b = <<>> THEN "Greater"
    ELSE IF Head(a) < Head(b) THEN "Less"
    ELSE IF Head(a) > Head(b) THEN "Greater"
    ELSE cmp(Tail(a), Tail(b))

RECURSIVE insert_unstable(_, _)
\* insert_sorted with x put before the entries that are equal to it.
insert_unstable(sorted, x) ==
    IF sorted = <<>> THEN <<x>>
    ELSE IF cmp(Head(sorted).name, x.name) # "Less" THEN <<x>> \o sorted
    ELSE <<Head(sorted)>> \o insert_unstable(Tail(sorted), x)

RECURSIVE insert_sorted(_, _)
\* x put into the sorted sequence after every entry that is not greater.
insert_sorted(sorted, x) ==
    IF sorted = <<>> THEN <<x>>
    ELSE IF cmp(Head(sorted).name, x.name) = "Greater" THEN <<x>> \o sorted
    ELSE <<Head(sorted)>> \o insert_sorted(Tail(sorted), x)

RECURSIVE sort_by(_, _)
\* headers.sort_by(|(a, _), (b, _)| a.to_string().cmp(&b.to_string())):
\* a stable sort; sorted holds the entries placed so far.
sort_by(sorted, headers) ==
    IF headers = <<>> THEN sorted
    ELSE sort_by(insert_sorted(sorted, Head(headers)), Tail(headers))

\* HeaderValue::to_str() is Ok when every byte is visible ASCII or a tab.
to_str_ok(value) ==
    \A i \in 1..Len(value) : value[i] = 9 \/ (value[i] >= 32 /\ value[i] < 127)

hex_digit(d) == IF d < 10 THEN 48 + d ELSE 87 + d

\* One byte of a HeaderValue in its Debug form.
debug_byte(b) ==
    IF b = QUOTE THEN <<BACKSLASH, QUOTE>>
    ELSE IF b = 9 \/ (b >= 32 /\ b < 127) THEN <<b>>
    ELSE <<BACKSLASH, 120>> \o
         (IF b < 16 THEN <<hex_digit(b)>>
          ELSE <<hex_digit(b \div 16), hex_digit(b % 16)>>)

\* format!("{:?}", value) of a HeaderValue.
debug_value(value) ==
    <<QUOTE>> \o Concat([i \in 1..Len(value) |-> debug_byte(value[i])]) \o <<QUOTE>>

\* String::pop(): the string without its last character.
pop(text) == IF text = <<>> THEN <<>> ELSE SubSeq(text, 1, Len(text) - 1)

\* One line of headers_to_string: key, ": ", the value, '\n'.
header_line(e) ==
    e.name \o <<COLON, SPACE>>
           \o (IF to_str_ok(e.value) THEN e.value ELSE debug_value(e.value))
           \o <<LF>>

\* Printer::headers_to_string(headers, sort)
headers_to_string(headers, sort) ==
    LET hs == IF sort THEN sort_by(<<>>, headers) ELSE headers
    IN  pop(Concat([i \in 1..Len(hs) |-> header_line(hs[i])]))

RECURSIVE decimal(_)
\* The decimal digits of n (Display of an integer).
decimal(n) ==
    IF n < 10 THEN <<48 + n>> ELSE decimal(n \div 10) \o <<48 + (n % 10)>>

---------------------------------------------------------------------------
(* Highlighter sessions.                                                   *)

\* The closures given to with_highlighter, as data:
\*   highlight(text):  |highlighter| highlighter.highlight(text)
Code_highlight(text) == [f |-> "highlight", text |-> text]

\*   copy(stream):     |highlighter| io::copy(stream, &mut highlighter.linewise())
Code_copy(stream) == [f |-> "copy", stream |-> stream]
\*   format(stream):   |highlighter| get_json_formatter()
\*                        .format_stream_unbuffered(stream, &mut highlighter.linewise())
Code_format(stream) == [f |-> "format", stream |-> stream]

\* A writer: the Buffer, or the line-wise writer of a Highlighter session.
ToBuffer == [to |-> "buffer", syntax |-> ""]
ToLinewise(syntax) == [to |-> "linewise", syntax |-> syntax]

\* writer.write_all(data), made by `by` (the copy loop or the formatter).
write_all(s, writer, by, data) ==
    IF writer.to = "buffer" THEN Io(s, Event("print", by, "", data))
    ELSE Io(s, Event("highlight", by, writer.syntax, data))

RECURSIVE io_copy(_, _, _)
\* io::copy(stream, writer) and copy_largebuf(stream, writer): read a chunk,
\* write it, until the stream ends; the first error ends the loop.
io_copy(s, stream, writer) ==
    LET r == ReadIo(s, "copy")
    IN  IF ~r.ok \/ stream = <<>> THEN r
        ELSE LET w == write_all(r, writer, "copy", Head(stream))
             IN  IF ~w.ok THEN w ELSE io_copy(w, Tail(stream), writer)

\* The JSON formatter (jsonxf, as get_json_formatter() configures it) is a
\* transducer over the bytes: it drops white space, and puts each member of
\* an object on a line of its own, indented by four spaces per level.
\* depth: the open braces; pending: the last byte written opened an object.
FormatterStart == [depth |-> 0, pending |-> FALSE, out |-> <<>>]

RECURSIVE indent(_)
indent(depth) ==
    IF depth = 0 THEN <<>> ELSE <<SPACE, SPACE, SPACE, SPACE>> \o indent(depth - 1)

format_byte(f, b) ==
    IF b \in {SPACE, LF, 9, 13} THEN f
    ELSE IF b = 123 THEN
        [depth |-> f.depth + 1, pending |-> TRUE,
         out |-> f.out \o (IF f.pending THEN <<LF>> \o indent(f.depth) ELSE <<>>)
                       \o <<b>>]
    ELSE IF b = 125 THEN
        LET d == IF f.depth = 0 THEN 0 ELSE f.depth - 1
        IN  [depth |-> d, pending |-> FALSE,
             out |-> f.out \o (IF f.pending THEN <<>> ELSE <<LF>> \o indent(d))
                           \o <<b>>]
    ELSE
        [depth |-> f.depth, pending |-> FALSE,
         out |-> f.out \o (IF f.pending THEN <<LF>> \o indent(f.depth) ELSE <<>>)
                       \o <<b>>]

RECURSIVE format_buf(_, _)
\* The formatter run over one buffer of input: f.out is what it writes.
format_buf(f, bytes) ==
    IF bytes = <<>> THEN f
    ELSE format_buf(format_byte(f, Head(bytes)), Tail(bytes))

RECURSIVE format_stream_unbuffered(_, _, _, _)
\* Formatter::format_stream_unbuffered(stream, writer): read a chunk, write
\* its formatted form, until the stream ends; the first error ends the loop.
format_stream_unbuffered(s, f, stream, writer) ==
    LET r == ReadIo(s, "formatter")
    IN  IF ~r.ok \/ stream = <<>> THEN r
        ELSE LET g == format_buf([f EXCEPT !.out = <<>>], Head(stream))
                 w == IF g.out = <<>> THEN r
                      ELSE write_all(r, writer, "formatter", g.out)
             IN  IF ~w.ok THEN w
                 ELSE format_stream_unbuffered(w, g, Tail(stream), writer)

\* get_json_formatter().format_stream_unbuffered(stream, writer)
format_stream(s, stream, writer) ==
    format_stream_unbuffered(Enter(s, "format_stream_unbuffered"),
                             FormatterStart, stream, writer)

\* The formatter run over a text held in memory: what it writes in all.
format_text(text) == format_buf(FormatterStart, text).out

\* Runs the closure `code` on the session opened for `syntax`.
run_code(s, syntax, code) ==
    IF code.f = "highlight"
    THEN Io(s, Event("highlight", "printer", syntax, code.text))
    ELSE IF code.f = "copy"
    THEN io_copy(s, code.stream, ToLinewise(syntax))
    ELSE format_stream(s, code.stream, ToLinewise(syntax))

\* with_highlighter that finishes the session before it returns the error of
\* the closure (what a finish in Drop would do).
with_highlighter_always_finish(s, syntax, code) ==
    LET opened == [s EXCEPT !.ev = Append(@, Event("open", "printer", syntax, <<>>))]
        ran    == run_code(opened, syntax, code)
        fin    == Io(ran, Event("finish", "printer", syntax, <<>>))
    IN  [fin EXCEPT !.ok = ran.ok /\ fin.ok]

\* Printer::with_highlighter(syntax, code)
with_highlighter(s, syntax, code) ==
    LET opened == [s EXCEPT !.ev = Append(@, Event("open", "printer", syntax, <<>>))]
        ran    == run_code(opened, syntax, code)
    IN  IF ~ran.ok THEN ran
        ELSE Io(ran, Event("finish", "printer", syntax, <<>>))

\* Printer::print_colorized_text(text, syntax)
print_colorized_text(s, text, syntax) ==
    with_highlighter(Enter(s, "print_colorized_text"), syntax, Code_highlight(text))

\* Printer::print_headers(text)
print_headers(p, s, text) ==
    IF p.color THEN print_colorized_text(s, text, "http")
    ELSE Buffer_print(s, text)

---------------------------------------------------------------------------
(* print_request_headers and print_response_headers.                       *)

HTTP_11 == <<72, 84, 84, 80, 47, 49, 46, 49>>
GET == <<71, 69, 84>>

\* The URLs of the requests: without a host, with a host (and a query), with
\* a host and an explicit port.
Urls ==
    { [path |-> <<47>>, query |-> None, host |-> None, port |-> None],
      [path |-> <<47>>, query |-> Some(<<113>>), host |-> Some(<<120, 104>>), port |-> None],
      [path |-> <<47>>, query |-> None, host |-> Some(<<120, 104>>), port |-> Some(8080)] }

\* request.body(): absent, a stream (as_bytes() is None) or bytes.
NoBody == [kind |-> "none", bytes |-> <<>>]
StreamBody == [kind |-> "stream", bytes |-> <<97>>]
BytesBody(b) == [kind |-> "bytes", bytes |-> b]

\* request.body().and_then(|body| body.as_bytes())
body_as_bytes(body) == IF body.kind = "bytes" THEN Some(body.bytes) ELSE None

\* The value hyper would give the Host header.
host_value(url, test_mode) ==
    IF test_mode THEN <<104, 116, 116, 112, 46, 109, 111, 99, 107>>
    ELSE IF url.port.some THEN url.host.v \o <<COLON>> \o decimal(url.port.v)
    ELSE url.host.v

\* request_headers with the two headers set whether or not they are present.
request_headers_overwrite(request, test_mode) ==
    LET bytes == body_as_bytes(request.body)
        others == SelectSeq(request.headers,
                            LAMBDA e : e.name \notin {CONTENT_LENGTH, HOST})
        h1 == IF bytes.some
              THEN Append(others, [name |-> CONTENT_LENGTH,
                                   value |-> decimal(Len(bytes.v))])
              ELSE others
    IN  IF request.url.host.some
        THEN Append(h1, [name |-> HOST,
                         value |-> host_value(request.url, test_mode)])
        ELSE h1

\* The headers print_request_headers prints: the request's, with the two
\* that reqwest and hyper add when sending.
request_headers(request, test_mode) ==
    LET bytes == body_as_bytes(request.body)
        h1 == IF bytes.some
              THEN entry_or_insert_with(request.headers, CONTENT_LENGTH,
                                        decimal(Len(bytes.v)))
              ELSE request.headers
    IN  IF request.url.host.some
        THEN entry_or_insert_with(h1, HOST, host_value(request.url, test_mode))
        ELSE h1

request_line(request) ==
    request.method \o <<SPACE>> \o request.url.path
        \o (IF request.url.query.some THEN <<63>> \o request.url.query.v ELSE <<>>)
        \o <<SPACE>> \o HTTP_11 \o <<LF>>

\* Printer::print_request_headers(request)
print_request_headers(p, s, request, test_mode) ==
    LET headers == headers_to_string(request_headers(request, test_mode),
                                     p.sort_headers)
        s1 == print_headers(p, s, request_line(request) \o headers)
    IN  IF ~s1.ok THEN s1 ELSE Buffer_print(s1, <<LF, LF>>)

status_line(response) ==
    HTTP_11 \o <<SPACE>> \o response.status \o <<LF>>

\* print_response_headers with one newline after the block.
print_response_headers_one_newline(p, s, response) ==
    LET headers == headers_to_string(response.headers, p.sort_headers)
        s1 == print_headers(p, s, status_line(response) \o headers)
    IN  IF ~s1.ok THEN s1 ELSE Buffer_print(s1, <<LF>>)

\* Printer::print_response_headers(response)
print_response_headers(p, s, response) ==
    LET headers == headers_to_string(response.headers, p.sort_headers)
        s1 == print_headers(p, s, status_line(response) \o headers)
    IN  IF ~s1.ok THEN s1 ELSE Buffer_print(s1, <<LF, LF>>)

---------------------------------------------------------------------------
(* Bodies.                                                                 *)

\* get_content_type(headers): Option<ContentType>; "None" stands for an
\* absent or any other content type.
ContentTypes == {"Json", "Xml", "Html", "Multipart", "None"}

\* The bytes of the bodies: NUL, 'a', '{', '}', and 0xFF (never valid UTF-8).
BodyBytes == {NUL, 97, 123, 125, 255}

\* String::from_utf8(bytes).ok(): Some only when the bytes are valid UTF-8.
from_utf8(bytes) ==
    IF \A i \in 1..Len(bytes) : bytes[i] < 128 THEN Some(bytes) ELSE None

\* String::from_utf8_lossy(bytes): invalid bytes become U+FFFD.
from_utf8_lossy(bytes) ==
    [i \in 1..Len(bytes) |-> IF bytes[i] < 128 THEN bytes[i] ELSE 65533]

\* response.text(): "behaves like String::from_utf8_lossy()".
response_text(stream) == from_utf8_lossy(Concat(stream))

\* decode_stream(response): the stream, decoded "in a way that matches .text()".
decode_stream(stream) ==
    [i \in 1..Len(stream) |-> from_utf8_lossy(stream[i])]

\* Printer::print_stream(reader)
print_stream(s, reader) == io_copy(Enter(s, "print_stream"), reader, ToBuffer)

\* Printer::print_syntax_text(text, syntax)
print_syntax_text(p, s, text, syntax) ==
    LET s0 == Enter(s, "print_syntax_text")
    IN  IF p.color THEN print_colorized_text(s0, text, syntax)
        ELSE Buffer_print(s0, text)

\* Printer::print_syntax_stream(stream, syntax)
print_syntax_stream(p, s, stream, syntax) ==
    LET s0 == Enter(s, "print_syntax_stream")
    IN  IF p.color THEN with_highlighter(s0, syntax, Code_copy(stream))
        ELSE print_stream(s0, stream)

\* get_json_formatter().format_stream_unbuffered(&mut text.as_bytes(), buf)
\* into a Vec: the reads and the writes are in memory and cannot fail.
format_text_to_vec(s) == Enter(s, "format_stream_unbuffered")

\* get_json_formatter().format_stream_unbuffered(&mut text.as_bytes(),
\* &mut self.buffer): the reads cannot fail, the writes can.
format_text_to_buffer(s, text) ==
    LET s0 == Enter(s, "format_stream_unbuffered")
    IN  IF format_text(text) = <<>> THEN s0
        ELSE write_all(s0, ToBuffer, "formatter", format_text(text))

\* print_json_text that reformats whether or not indent_json is set.
print_json_text_always_format(p, s, text) ==
    LET s0 == Enter(s, "print_json_text")
    IN  IF p.color
        THEN print_colorized_text(format_text_to_vec(s0), format_text(text), "json")
        ELSE format_text_to_buffer(s0, text)

\* Printer::print_json_text(text)
print_json_text(p, s, text) ==
    LET s0 == Enter(s, "print_json_text")
    IN  IF ~p.indent_json THEN print_syntax_text(p, s0, text, "json")
        ELSE IF p.color
        THEN print_colorized_text(format_text_to_vec(s0), format_text(text), "json")
        ELSE format_text_to_buffer(s0, text)

\* print_json_stream that does not look at color when it reformats.
print_json_stream_no_color(p, s, stream) ==
    LET s0 == Enter(s, "print_json_stream")
    IN  IF ~p.indent_json THEN print_syntax_stream(p, s0, stream, "json")
        ELSE format_stream(s0, stream, ToBuffer)

\* Printer::print_json_stream(stream)
print_json_stream(p, s, stream) ==
    LET s0 == Enter(s, "print_json_stream")
    IN  IF ~p.indent_json THEN print_syntax_stream(p, s0, stream, "json")
        ELSE IF p.color THEN with_highlighter(s0, "json", Code_format(stream))
        ELSE format_stream(s0, stream, ToBuffer)

\* Printer::print_body_text(content_type, body)
print_body_text(p, s, content_type, body) ==
    LET s0 == Enter(s, "print_body_text")
    IN  IF content_type = "Json" THEN print_json_text(p, s0, body)
        ELSE IF content_type = "Xml" THEN print_syntax_text(p, s0, body, "xml")
        ELSE IF content_type = "Html" THEN print_syntax_text(p, s0, body, "html")
        ELSE Buffer_print(s0, body)

\* Printer::print_body_stream(content_type, body)
print_body_stream(p, s, content_type, body) ==
    LET s0 == Enter(s, "print_body_stream")
    IN  IF content_type = "Json" THEN print_json_stream(p, s0, body)
        ELSE IF content_type = "Xml" THEN print_syntax_stream(p, s0, body, "xml")
        ELSE IF content_type = "Html" THEN print_syntax_stream(p, s0, body, "html")
        ELSE print_stream(s0, body)

\* The request body print_request_body renders, if any: bytes, without a
\* NUL, that are valid UTF-8.
request_body_text(request) ==
    LET bytes == body_as_bytes(request.body)
    IN  IF bytes.some /\ ~Contains(bytes.v, NUL) THEN from_utf8(bytes.v) ELSE None

\* print_request_body that looks for a body before the content type.
print_request_body_body_first(p, s, request) ==
    LET body == request_body_text(request)
    IN  IF ~body.some THEN s
        ELSE IF request.content_type = "Multipart"
        THEN Buffer_print(s, MULTIPART_SUPPRESSOR)
        ELSE LET s1 == print_body_text(p, s, request.content_type, body.v)
             IN  IF ~s1.ok THEN s1 ELSE Buffer_print(s1, <<LF>>)

\* Printer::print_request_body(request)
print_request_body(p, s, request) ==
    IF request.content_type = "Multipart" THEN Buffer_print(s, MULTIPART_SUPPRESSOR)
    ELSE LET body == request_body_text(request)
         IN  IF ~body.some THEN s
             ELSE LET s1 == print_body_text(p, s, request.content_type, body.v)
                  IN  IF ~s1.ok THEN s1 ELSE Buffer_print(s1, <<LF>>)

\* print_response_body with the binary check made on every terminal path.
print_response_body_check_stream(p, s, response) ==
    IF ~is_terminal(p.buffer)
    THEN print_body_stream(p, s, response.content_type, response.stream)
    ELSE LET s0 == ReadIo(s, "text")
             text == response_text(response.stream)
         IN  IF ~s0.ok THEN s0
             ELSE IF Contains(text, NUL) THEN Buffer_print(s0, BINARY_SUPPRESSOR)
             ELSE LET s1 == print_body_text(p, s0, response.content_type, text)
                  IN  IF ~s1.ok THEN s1 ELSE Buffer_print(s1, <<LF>>)

\* Printer::print_response_body(response)
print_response_body(p, s, response) ==
    IF ~is_terminal(p.buffer)
    THEN print_body_stream(p, s, response.content_type, response.stream)
    ELSE IF p.stream
    THEN LET s1 == print_body_stream(p, s, response.content_type,
                                     decode_stream(response.stream))
         IN  IF ~s1.ok THEN s1 ELSE Buffer_print(s1, <<LF>>)
    ELSE LET s0 == ReadIo(s, "text")
             text == response_text(response.stream)
         IN  IF ~s0.ok THEN s0
             ELSE IF Contains(text, NUL) THEN Buffer_print(s0, BINARY_SUPPRESSOR)
             ELSE LET s1 == print_body_text(p, s0, response.content_type, text)
                  IN  IF ~s1.ok THEN s1 ELSE Buffer_print(s1, <<LF>>)

---------------------------------------------------------------------------
(* State.                                                                  *)

Bools == {TRUE, FALSE}

Init ==
    \E pretty \in PrettyValues \cup {"None"}, stream \in Bools,
       download \in Bools, output \in Bools, is_stdout_tty \in Bools :
        /\ printer = Printer_new(pretty, stream,
                                 Buffer_new(download, output, is_stdout_tty))
        /\ call = [op |-> "new", pretty |-> pretty, download |-> download,
                   output |-> output, is_stdout_tty |-> is_stdout_tty]

\* The caller takes the Result of the finished operation.
Return ==
    /\ call.op # "idle"
    /\ call' = [op |-> "idle"]
    /\ UNCHANGED printer

\* The printer is built and no operation is in progress.
Ready == call.op = "idle"

Fails == 0..MaxFail

\* The bodies whose length is all that print_request_headers reads.
SizedBodies ==
    {NoBody, StreamBody} \cup {BytesBody([i \in 1..k |-> 97]) : k \in 0..MaxBody}

PrintRequestHeaders ==
    /\ Ready
    /\ \E url \in Urls, headers \in HeaderMaps, body \in SizedBodies,
          test_mode \in Bools, fail \in Fails :
        LET request == [method |-> GET, url |-> url, headers |-> headers,
                        body |-> body]
            s == print_request_headers(printer, Start(fail), request, test_mode)
        IN  call' = [op |-> "print_request_headers", request |-> request,
                     test_mode |-> test_mode, ev |-> s.ev, ok |-> s.ok, path |-> s.path]
    /\ UNCHANGED printer

PrintResponseHeaders ==
    /\ Ready
    /\ \E headers \in HeaderMaps, fail \in Fails :
        LET response == [status |-> <<50, 48, 48, 32, 79, 75>>, headers |-> headers]
            s == print_response_headers(printer, Start(fail), response)
        IN  call' = [op |-> "print_response_headers", response |-> response,
                     ev |-> s.ev, ok |-> s.ok, path |-> s.path]
    /\ UNCHANGED printer

Bodies == SeqsUpTo(BodyBytes, MaxBody)

RECURSIVE chunks(_, _, _)
\* The body bytes[from..] as the chunks the reads return: a chunk ends at
\* each position of cuts, and at the end.
chunks(bytes, cuts, from) ==
    IF from > Len(bytes) THEN <<>>
    ELSE LET ends == {i \in from..Len(bytes) : i \in cuts \/ i = Len(bytes)}
             to == CHOOSE i \in ends : \A j \in ends : i <= j
         IN  <<SubSeq(bytes, from, to)>> \o chunks(bytes, cuts, to + 1)

PrintRequestBody ==
    /\ Ready
    /\ \E content_type \in ContentTypes, fail \in Fails,
          body \in {NoBody, StreamBody} \cup {BytesBody(b) : b \in Bodies} :
        LET request == [content_type |-> content_type, body |-> body]
            s == print_request_body(printer, Start(fail), request)
        IN  call' = [op |-> "print_request_body", request |-> request,
                     ev |-> s.ev, ok |-> s.ok, path |-> s.path]
    /\ UNCHANGED printer

PrintResponseBody ==
    /\ Ready
    /\ \E content_type \in ContentTypes, fail \in Fails, bytes \in Bodies :
        \E cuts \in SUBSET (1..(Len(bytes) - 1)) :
        LET response == [content_type |-> content_type,
                         stream |-> chunks(bytes, cuts, 1)]
            s == print_response_body(printer, Start(fail), response)
        IN  call' = [op |-> "print_response_body", response |-> response,
                     ev |-> s.ev, ok |-> s.ok, path |-> s.path]
    /\ UNCHANGED printer

Next ==
    \/ PrintRequestHeaders
    \/ PrintResponseHeaders
    \/ PrintRequestBody
    \/ PrintResponseBody
    \/ Return

Spec == Init /\ [][Next]_vars

---------------------------------------------------------------------------
(* Properties.                                                             *)

Front(seq) == SubSeq(seq, 1, Len(seq) - 1)
Last(seq) == seq[Len(seq)]

RECURSIVE Split(_, _)
\* The lines of a text: its parts between the separators.
Split(text, sep) ==
    IF ~Contains(text, sep) THEN <<text>>
    ELSE LET i == CHOOSE i \in 1..Len(text) :
                      text[i] = sep /\ \A j \in 1..(i - 1) : text[j] # sep
         IN  <<SubSeq(text, 1, i - 1)>> \o Split(SubSeq(text, i + 1, Len(text)), sep)

\* The permutations of 1..n.
Perms(n) == {f \in [1..n -> 1..n] : \A i, j \in 1..n : f[i] = f[j] => i = j}

\* A header's line as it is to be shown: the value as it is when it is text,
\* the byte 0xFF in its escaped form "\xff" (in quotes).
ShownLine(e) ==
    e.name \o <<58, 32>> \o
    (IF e.value = <<255>> THEN <<34, 92, 120, 102, 102, 34>> ELSE e.value)

\* The header block a headers operation wrote, without its first line and
\* without the two newlines that end it.
HeaderText(first_line) ==
    SubSeq(Written(call.ev), Len(first_line) + 1, Len(Written(call.ev)) - 2)

\* text is the headers given, one line each, in the order the permutation
\* perm gives them.
ShowsInOrder(text, headers, perm) ==
    LET lines == IF headers = <<>> THEN <<>> ELSE Split(text, LF)
    IN  /\ Len(lines) = Len(headers)
        /\ \A k \in 1..Len(headers) : lines[k] = ShownLine(headers[perm[k]])

\* perm orders the headers by name, those of equal names as they were.
SortsStably(headers, perm) ==
    \A k, l \in 1..Len(headers) :
        k < l => \/ cmp(headers[perm[k]].name, headers[perm[l]].name) = "Less"
                 \/ /\ headers[perm[k]].name = headers[perm[l]].name
                    /\ perm[k] < perm[l]

\* The calls of kind `kind` among ev.
Of(ev, kind) == {i \in 1..Len(ev) : ev[i].kind = kind}

\* The first call after the i-th that is not a read of the body nor a write
\* to the session (Len(ev) + 1 when there is none).
SessionEnd(ev, i) ==
    IF \E j \in (i + 1)..Len(ev) : ev[j].kind \notin {"read", "highlight"}
    THEN CHOOSE j \in (i + 1)..Len(ev) :
            /\ ev[j].kind \notin {"read", "highlight"}
            /\ \A k \in (i + 1)..(j - 1) : ev[k].kind \in {"read", "highlight"}
    ELSE Len(ev) + 1

\* C3: in every operation, a call that fails is the last one made and the
\* operation returns the error; each Highlighter session opened is followed
\* by its writes alone and then, when they all succeeded, by finish, once,
\* before any other write to the sink; when the write step failed there is
\* no finish and no further write; writes to a session and finish happen only
\* in a session that is open.
C3_SessionLifecycle ==
    call.op \notin {"new", "idle"} =>
        LET ev == call.ev
        IN  /\ \A i \in 1..Len(ev) : ~ev[i].ok => (i = Len(ev) /\ ~call.ok)
            /\ call.ok => \A i \in 1..Len(ev) : ev[i].ok
            /\ \A i \in Of(ev, "open") :
                  LET e == SessionEnd(ev, i)
                  IN  /\ \A k \in (i + 1)..(e - 1) :
                            ev[k].kind = "highlight" => ev[k].syntax = ev[i].syntax
                      /\ IF e <= Len(ev)
                         THEN /\ ev[e].kind = "finish"
                              /\ \A k \in (i + 1)..(e - 1) : ev[k].ok
                              /\ \A k \in (e + 1)..Len(ev) : ev[k].kind # "finish"
                         ELSE ~call.ok
            /\ \A j \in Of(ev, "finish") \cup Of(ev, "highlight") :
                  \E i \in Of(ev, "open") : i < j /\ j <= SessionEnd(ev, i)
            /\ call.ok => Cardinality(Of(ev, "finish")) = Cardinality(Of(ev, "open"))

\* C3 happens: a session whose write step failed after a successful write,
\* left without finish.
C3_Witness ==
    /\ call.op = "print_response_body" /\ ~call.ok
    /\ Of(call.ev, "open") # {} /\ Of(call.ev, "finish") = {}
    /\ \E i \in Of(call.ev, "highlight") : call.ev[i].ok
    /\ ~Last(call.ev).ok

\* What a body renders as: reformatted when it is JSON and indent_json is
\* on, as it is otherwise.
Rendered(content_type, text) ==
    IF content_type = "Json" /\ printer.indent_json THEN format_text(text) ELSE text

\* The last call is the printer's own print of `text`.
EndsWithPrint(text) ==
    /\ call.ev # <<>>
    /\ Last(call.ev).kind = "print" /\ Last(call.ev).by = "printer"
    /\ Last(call.ev).text = text

\* The printer itself prints nothing.
NoPrinterPrint == \A i \in Of(call.ev, "print") : call.ev[i].by # "printer"

\* C4: after an operation that succeeded, the header block is followed by
\* exactly two newlines; a request body that is rendered, and a response
\* body rendered to a terminal, by exactly one; a response body written to a
\* sink that is not a terminal by none; a banner by none.
C4_OutputFraming ==
    call.op \notin {"new", "idle"} /\ call.ok =>
        LET out == Written(call.ev)
        IN  /\ call.op = "print_request_headers" =>
                  /\ EndsWithPrint(<<LF, LF>>)
                  /\ out = request_line(call.request)
                            \o headers_to_string(request_headers(call.request,
                                                                 call.test_mode),
                                                 printer.sort_headers)
                            \o <<LF, LF>>
            /\ call.op = "print_response_headers" =>
                  /\ EndsWithPrint(<<LF, LF>>)
                  /\ out = status_line(call.response)
                            \o headers_to_string(call.response.headers,
                                                 printer.sort_headers)
                            \o <<LF, LF>>
            /\ call.op = "print_request_body" =>
                  IF call.request.content_type = "Multipart"
                  THEN out = MULTIPART_SUPPRESSOR
                  ELSE request_body_text(call.request).some =>
                         /\ EndsWithPrint(<<LF>>)
                         /\ out = Rendered(call.request.content_type,
                                           call.request.body.bytes) \o <<LF>>
            /\ call.op = "print_response_body" =>
                  LET bytes == Concat(call.response.stream)
                      text == from_utf8_lossy(bytes)
                  IN  IF ~is_terminal(printer.buffer)
                      THEN /\ NoPrinterPrint
                           /\ out = Rendered(call.response.content_type, bytes)
                      ELSE IF ~printer.stream /\ Contains(text, NUL)
                      THEN out = BINARY_SUPPRESSOR
                      ELSE /\ EndsWithPrint(<<LF>>)
                           /\ out = Rendered(call.response.content_type, text)
                                     \o <<LF>>

\* C4 happens: a response body of two chunks streamed to a sink that is not
\* a terminal, written without a newline after it.
C4_Witness ==
    /\ call.op = "print_response_body" /\ call.ok
    /\ ~is_terminal(printer.buffer)
    /\ Len(call.response.stream) = 2
    /\ Written(call.ev) = Concat(call.response.stream)

\* The headers print_request_headers is to print: the request's own, then
\* Content-Length when there is none and the body is held as bytes, then
\* Host when there is none and the URL has a host.
ExpectedHeaders ==
    LET r == call.request
        own(name) == \E i \in 1..Len(r.headers) : r.headers[i].name = name
        host == IF call.test_mode
                THEN <<104, 116, 116, 112, 46, 109, 111, 99, 107>>
                ELSE IF r.url.port.some
                THEN r.url.host.v \o <<58>> \o decimal(r.url.port.v)
                ELSE r.url.host.v
    IN  r.headers
        \o (IF ~own(CONTENT_LENGTH) /\ r.body.kind = "bytes"
            THEN <<[name |-> CONTENT_LENGTH, value |-> decimal(Len(r.body.bytes))]>>
            ELSE <<>>)
        \o (IF ~own(HOST) /\ r.url.host.some
            THEN <<[name |-> HOST, value |-> host]>>
            ELSE <<>>)

\* The lines of the header block print_request_headers wrote.
PrintedHeaderLines ==
    LET text == HeaderText(request_line(call.request))
    IN  IF text = <<>> THEN <<>> ELSE Split(text, LF)

\* C5 as amended: print_request_headers prints the headers of the request
\* and, after them, a Content-Length header with the length of the body when
\* the request has none and its body is held as bytes (it is not a stream),
\* and a Host header with host[:port] of the URL (http.mock in test mode)
\* when the request has none and its URL has a host: a header the request
\* declares keeps its value and is not repeated, and no other header is
\* added or removed.
C5_HeaderSynthesis ==
    (call.op = "print_request_headers" /\ call.ok) =>
        HeaderText(request_line(call.request))
            = headers_to_string(ExpectedHeaders, printer.sort_headers)

\* C5 happens: a request without headers, with a body of bytes and a URL
\* with a host and a port, gains the two headers.
C5_Witness ==
    /\ call.op = "print_request_headers" /\ call.ok /\ ~call.test_mode
    /\ call.request.headers = <<>>
    /\ call.request.body.kind = "bytes" /\ call.request.body.bytes # <<>>
    /\ call.request.url.port.some
    /\ Len(PrintedHeaderLines) = 2

\* C5 as claimed: a request with no Host and no Content-Length header, a
\* body that is not empty (and a URL with a host) gains the two headers.
C5_Claimed ==
    ( /\ call.op = "print_request_headers" /\ call.ok
      /\ \A i \in 1..Len(call.request.headers) :
            call.request.headers[i].name \notin {HOST, CONTENT_LENGTH}
      /\ call.request.body.kind # "none" /\ call.request.body.bytes # <<>>
      /\ call.request.url.host.some )
    => /\ Len(PrintedHeaderLines) = Len(call.request.headers) + 2
       /\ \E i \in 1..Len(PrintedHeaderLines) :
             PrintedHeaderLines[i] =
                CONTENT_LENGTH \o <<58, 32>> \o decimal(Len(call.request.body.bytes))
       /\ \E i \in 1..Len(PrintedHeaderLines) :
             SubSeq(PrintedHeaderLines[i], 1, 6) = HOST \o <<58, 32>>

\* The body of the response as the renderer of its path is given it: the raw
\* bytes when the sink is not a terminal, the decoded text when it is.
ResponseSource ==
    IF is_terminal(printer.buffer)
    THEN from_utf8_lossy(Concat(call.response.stream))
    ELSE Concat(call.response.stream)

\* The response body goes the buffered path: a terminal, no streaming.
BufferedPath == is_terminal(printer.buffer) /\ ~printer.stream

\* How often `name` was entered.
Entered(name) == Cardinality({i \in 1..Len(call.path) : call.path[i] = name})

\* C1: print_response_body, when the sink is a terminal and streaming is not
\* requested, answers a body whose text (once read) contains a NUL with
\* exactly one call on the sink, the print of the binary banner: no body
\* byte, no Highlighter session, no newline after it; when the sink is not a
\* terminal or streaming is requested, it makes no NUL check: the body goes
\* to print_body_stream, whole, and the banner is never written.
C1_BinarySuppression ==
    call.op = "print_response_body" =>
        LET ev == call.ev
            sink == {i \in 1..Len(ev) : ev[i].kind # "read"}
        IN  IF BufferedPath
            THEN (Contains(ResponseSource, NUL) /\ ev[1].ok) =>
                    /\ Len(ev) = 2
                    /\ sink = {2}
                    /\ ev[2].kind = "print" /\ ev[2].by = "printer"
                    /\ ev[2].text = BINARY_SUPPRESSOR
                    /\ call.ok = ev[2].ok
                    /\ Entered("print_body_text") = 0
            ELSE /\ call.path # <<>> /\ call.path[1] = "print_body_stream"
                 /\ Entered("print_body_stream") = 1
                 /\ \A i \in 1..Len(ev) : ev[i].by # "text"
                 /\ \A i \in sink : ev[i].text # BINARY_SUPPRESSOR
                 /\ call.ok =>
                       Written(ev) =
                          Rendered(call.response.content_type, ResponseSource)
                          \o (IF is_terminal(printer.buffer) THEN <<LF>> ELSE <<>>)

\* C1 happens: a body with a NUL on the buffered path, answered by the banner.
C1_Witness ==
    /\ call.op = "print_response_body" /\ call.ok /\ BufferedPath
    /\ Contains(ResponseSource, NUL)
    /\ Written(call.ev) = BINARY_SUPPRESSOR

\* C2: print_request_body, for a request whose content type is Multipart,
\* makes exactly one call on the sink, the print of the multipart banner,
\* whatever the body is (absent, empty, text, with a NUL, not UTF-8, a
\* stream): the body is not rendered.
C2_MultipartSuppression ==
    (call.op = "print_request_body" /\ call.request.content_type = "Multipart") =>
        /\ Len(call.ev) = 1
        /\ call.ev[1].kind = "print" /\ call.ev[1].by = "printer"
        /\ call.ev[1].text = MULTIPART_SUPPRESSOR
        /\ call.ok = call.ev[1].ok
        /\ call.path = <<>>

\* C2 happens: a multipart request without a body, answered by the banner.
C2_Witness ==
    /\ call.op = "print_request_body" /\ call.ok
    /\ call.request.content_type = "Multipart"
    /\ call.request.body.kind = "none"
    /\ Written(call.ev) = MULTIPART_SUPPRESSOR

\* The text given to print_body_text.
BodyText ==
    IF call.op = "print_request_body" THEN call.request.body.bytes
    ELSE ResponseSource

ContentType ==
    IF call.op = "print_request_body" THEN call.request.content_type
    ELSE call.response.content_type

\* A body was rendered through print_body_text, without color, and all went
\* well.
PlainBufferedRender ==
    /\ call.op \in {"print_request_body", "print_response_body"}
    /\ Entered("print_body_text") = 1
    /\ ~printer.color /\ call.ok

\* C6 as claimed: with color off, for every content type and either value
\* of the pretty flag, the buffered path writes the text as it is, and the
\* newline after it.
C6_Claimed ==
    PlainBufferedRender => Written(call.ev) = BodyText \o <<LF>>

\* C6 as amended: with color off, the buffered path writes the text as it
\* is, and the newline after it, for every content type but Json, and for
\* Json when the pretty flag (indent_json) is off.
C6_RoundTrip ==
    (PlainBufferedRender /\ ~(ContentType = "Json" /\ printer.indent_json)) =>
        Written(call.ev) = BodyText \o <<LF>>

\* C6 happens: a JSON text with a brace, pretty off and color off, written
\* as it is.
C6_Witness ==
    /\ PlainBufferedRender /\ ContentType = "Json" /\ ~printer.indent_json
    /\ Contains(BodyText, 123) /\ Len(BodyText) = 2
    /\ Written(call.ev) = BodyText \o <<LF>>

\* The writes of the body: every write but the printer's own last newline.
BodyWrites ==
    {i \in Of(call.ev, "print") \cup Of(call.ev, "highlight") :
        ~(call.ev[i].by = "printer" /\ call.ev[i].kind = "print")}

\* C8: a Json body, on the text path (print_json_text) and on the streaming
\* path (print_json_stream) alike: the formatter is invoked if and only if
\* indent_json is on, a Highlighter session is opened if and only if color
\* is on, and just one; with indent_json off the body is written as it is;
\* with indent_json on and color off the formatter writes to the Buffer;
\* with both on, what the formatter gives goes through the one session: the
\* whole of it in one highlight on the text path, written by the formatter
\* to the session's line-wise writer on the streaming path.
C8_JsonRenderMatrix ==
    (call.op \in {"print_request_body", "print_response_body"}
       /\ Entered("print_json_text") + Entered("print_json_stream") > 0) =>
        LET ev == call.ev
            text_path == Entered("print_json_text") = 1
        IN  /\ Entered("print_json_text") + Entered("print_json_stream") = 1
            /\ text_path = (call.path[1] # "print_body_stream")
            /\ Entered("format_stream_unbuffered")
                  = (IF printer.indent_json THEN 1 ELSE 0)
            /\ Cardinality(Of(ev, "open")) = (IF printer.color THEN 1 ELSE 0)
            /\ \A i \in Of(ev, "open") \cup Of(ev, "highlight") : ev[i].syntax = "json"
            /\ ~printer.indent_json =>
                  /\ \A i \in 1..Len(ev) : ev[i].by # "formatter"
                  /\ call.ok => Written(ev) =
                        BodyText \o (IF is_terminal(printer.buffer)
                                        \/ call.op = "print_request_body"
                                     THEN <<LF>> ELSE <<>>)
            /\ (printer.indent_json /\ ~printer.color) =>
                  \A i \in BodyWrites :
                      ev[i].kind = "print" /\ ev[i].by = "formatter"
            /\ (printer.indent_json /\ printer.color) =>
                  /\ \A i \in BodyWrites :
                        /\ ev[i].kind = "highlight"
                        /\ ev[i].by = (IF text_path THEN "printer" ELSE "formatter")
                  /\ text_path =>
                        /\ Cardinality(BodyWrites) = 1
                        /\ \A i \in BodyWrites : ev[i].text = format_text(BodyText)

\* C8 happens: a Json response of two chunks streamed to a terminal with
\* indent_json and color on, reformatted into the session.
C8_Witness ==
    /\ call.op = "print_response_body" /\ call.ok
    /\ printer.indent_json /\ printer.color
    /\ Entered("print_json_stream") = 1
    /\ Len(call.response.stream) = 2
    /\ Cardinality(BodyWrites) = 2
    /\ \A i \in BodyWrites : call.ev[i].by = "formatter"

\* C9: the header block of a response has exactly one `name: value` line per
\* header (a value that is not text in its escaped form), joined by newlines
\* with none at the end; when the headers are sorted the lines are ordered
\* by name in ordinal order, equal names in their input order, and otherwise
\* the lines are in the iteration order of the headers.
C9_HeaderFormatting ==
    (call.op = "print_response_headers" /\ call.ok) =>
        LET headers == call.response.headers
            text == HeaderText(status_line(call.response))
        IN  /\ (text = <<>> \/ Last(text) # LF)
            /\ \E perm \in Perms(Len(headers)) :
                  /\ ShowsInOrder(text, headers, perm)
                  /\ IF printer.sort_headers THEN SortsStably(headers, perm)
                     ELSE \A k \in 1..Len(headers) : perm[k] = k

\* C9 happens: two headers of one name after a header of a greater name,
\* printed sorted.
C9_Witness ==
    /\ call.op = "print_response_headers" /\ call.ok /\ printer.sort_headers
    /\ Len(call.response.headers) >= 2
    /\ \E i, j \in 1..Len(call.response.headers) :
          /\ i < j
          /\ cmp(call.response.headers[i].name, call.response.headers[j].name) = "Greater"
    /\ HeaderText(status_line(call.response)) # <<>>

\* C10: a Printer built by Printer::new has indent_json = sort_headers = the
\* format flag of --pretty; without --pretty, color is on exactly when the sink
\* is a terminal: stdout on a tty gives Stdout and color, stdout not on a tty
\* gives Redirect and no color, an output file without download gives File
\* and no color, download gives Stderr and color.
C10_PrinterConfiguration ==
    /\ printer.indent_json = printer.sort_headers
    /\ call.op = "new" =>
        /\ call.pretty # "None" =>
              printer.indent_json = (call.pretty \in {"all", "format"})
        /\ call.pretty = "None" =>
            /\ printer.color = (printer.buffer \in {"Stdout", "Stderr"})
            /\ (~call.download /\ ~call.output /\ call.is_stdout_tty) =>
                  (printer.buffer = "Stdout" /\ printer.color)
            /\ (~call.download /\ ~call.output /\ ~call.is_stdout_tty) =>
                  (printer.buffer = "Redirect" /\ ~printer.color)
            /\ (~call.download /\ call.output) =>
                  (printer.buffer = "File" /\ ~printer.color)
            /\ call.download => (printer.buffer = "Stderr" /\ printer.color)

\* C10 happens: download with an output file and stdout not a tty, without
\* --pretty (the last of the eight scenarios).
C10_Witness ==
    /\ call.op = "new" /\ call.pretty = "None"
    /\ call.download /\ call.output /\ ~call.is_stdout_tty
    /\ printer.buffer = "Stderr" /\ printer.color /\ printer.sort_headers

===========================================================================
